---- MODULE Spec2Model ----
(***************************************************************************)
(* Model of defmt-logger-tcp (src/defmt-logger-tcp/src/lib.rs): a defmt    *)
(* global logger that broadcasts encoded log frames to TCP observers.      *)
(*                                                                         *)
(* State: the statics TAKEN, PENDING_STREAMS and STREAMS, the two mutexes  *)
(* guarding the vectors (owner and poison flag), the position of the       *)
(* listener thread inside run() and of every logging thread inside         *)
(* acquire / release / write / flush and on_all_streams, and the sockets   *)
(* (peer address, whether the peer is still there, what was delivered).    *)
(*                                                                         *)
(* The frame codec (defmt::Encoder) and the sockets (std::net) are outside *)
(* the repository.  Each Encoder call is taken to hand write_stream one    *)
(* chunk: "S" for start_frame, "E" for end_frame, the payload for write.   *)
(* A socket operation is an environment step that returns Ok or Err, as    *)
(* its io::Result type allows; peer_addr() returns Err once the peer has   *)
(* reset the connection.                                                   *)
(***************************************************************************)
EXTENDS Naturals, Sequences, FiniteSets

\* Bounds of the model.
MaxConns == 2
MaxSessions == 2
MaxEmits == 1
MaxTimeouts == 1

Threads == {"t1", "t2"}
Addrs == {"x", "y"}
Conns == 1..MaxConns

Free == "free"
Listener == "listener"

VARIABLES
    TAKEN,            \* static TAKEN: AtomicBool
    PENDING_STREAMS,  \* static PENDING_STREAMS (sequence of connection handles)
    STREAMS,          \* static STREAMS
    lockP,            \* owner of the PENDING_STREAMS mutex, or Free
    lockS,            \* owner of the STREAMS mutex, or Free
    poisonedS,        \* a thread panicked while holding the STREAMS mutex
    lpc,              \* position of the listener thread in run()
    lconn,            \* the stream run() has accepted and not yet pushed (0: none)
    nextId,           \* number of connections accepted so far
    peer,             \* peer[c]: SocketAddr of connection c
    gone,             \* gone[c]: the peer has reset c; writes fail, peer_addr() is Err
    timeouts,         \* number of socket operations on live peers that failed so far
    log,              \* log[c]: chunks written to c with success, in order
    pc,               \* pc[t]: position of logging thread t
    call,             \* call[t]: the Logger method t is inside
    arg,              \* arg[t]: the bytes of the write call in progress
    streams_to_drop,  \* streams_to_drop[t]: local of on_all_streams
    inSession,        \* host side: t has returned from acquire and not yet from release
    \* history variables, read only by the properties
    failed,           \* connections on which a socket operation returned Err
    admitted,         \* connections pushed to PENDING_STREAMS so far
    admitAt,          \* admitAt[c]: <<sessions, phase>> when c was pushed
    sessions,         \* number of promotions done by acquire
    sessActive,       \* the set of STREAMS right after the last acquire promotion
    emitted,          \* payloads of the write calls since the last acquire promotion
    sessFault,        \* a socket operation returned Err since the last acquire promotion
    mark,             \* mark[c]: Len(log[c]) at the last acquire promotion
    snapshot,         \* snapshot[t]: STREAMS when t's current broadcast took the lock
    attempted         \* attempted[t]: connections op was applied to in t's broadcast

vars == <<TAKEN, PENDING_STREAMS, STREAMS, lockP, lockS, poisonedS, lpc, lconn,
          nextId, peer, gone, timeouts, log, pc, call, arg, streams_to_drop, inSession,
          failed, admitted, admitAt, sessions, sessActive, emitted,
          sessFault, mark, snapshot, attempted>>

regVars == <<TAKEN, PENDING_STREAMS, STREAMS, lockP, lockS, poisonedS>>
lisVars == <<lpc, lconn, nextId, peer>>
thrVars == <<pc, call, arg, streams_to_drop, inSession>>
sesVars == <<sessions, sessActive, emitted, sessFault, mark>>
bcVars == <<snapshot, attempted>>

Range(s) == {s[i] : i \in 1..Len(s)}

RECURSIVE Retain(_, _)
\* Vec::retain: keep, in order, the elements of s that are not in drop.
Retain(s, drop) ==
    IF s = <<>> THEN <<>>
    ELSE IF Head(s) \in drop THEN Retain(Tail(s), drop)
         ELSE <<Head(s)>> \o Retain(Tail(s), drop)

InitBut(spent) ==
    /\ TAKEN = FALSE
    /\ PENDING_STREAMS = <<>>
    /\ STREAMS = <<>>
    /\ lockP = Free
    /\ lockS = Free
    /\ poisonedS = FALSE
    /\ lpc = "bind"
    /\ lconn = 0
    /\ nextId = 0
    /\ peer = [c \in Conns |-> "x"]
    /\ gone = [c \in Conns |-> FALSE]
    /\ timeouts = spent
    /\ log = [c \in Conns |-> <<>>]
    /\ pc = [t \in Threads |-> "idle"]
    /\ call = [t \in Threads |-> "none"]
    /\ arg = [t \in Threads |-> 0]
    /\ streams_to_drop = [t \in Threads |-> <<>>]
    /\ inSession = [t \in Threads |-> FALSE]
    /\ failed = {}
    /\ admitted = {}
    /\ admitAt = [c \in Conns |-> <<0, "none">>]
    /\ sessions = 0
    /\ sessActive = {}
    /\ emitted = <<>>
    /\ sessFault = FALSE
    /\ mark = [c \in Conns |-> 0]
    /\ snapshot = [t \in Threads |-> <<>>]
    /\ attempted = [t \in Threads |-> <<>>]

\* The state after the statics are constructed (lines 27-29), no thread
\* started.
Init == InitBut(0)

\* The same, with peers that never time out.
InitThreads == InitBut(MaxTimeouts)


(***************************************************************************)
(* The listener thread: run().                                             *)
(***************************************************************************)

\* TcpListener::bind(..).expect(..): the thread panics when bind fails.
Bind ==
    /\ lpc = "bind"
    /\ \E ok \in BOOLEAN : lpc' = IF ok THEN "accept" ELSE "dead"
    /\ UNCHANGED <<regVars, lconn, nextId, peer, gone, timeouts, log, thrVars, failed,
                   admitted, admitAt, sesVars, bcVars>>

\* The peer addresses the next accepted stream can have.  Addresses are only
\* compared with one another, so the first stream's is called "x".
AcceptAddrs == IF nextId = 0 THEN {"x"} ELSE Addrs

\* Mutant of Accept: the thread takes the PENDING_STREAMS lock before it
\* accepts, and dies with it when the accept fails.
AcceptHoldsLock ==
    /\ lpc = "accept"
    /\ nextId < MaxConns
    /\ \E ok \in BOOLEAN, a \in AcceptAddrs :
          IF ok
          THEN /\ nextId' = nextId + 1
               /\ lconn' = nextId + 1
               /\ peer' = [peer EXCEPT ![nextId + 1] = a]
               /\ lpc' = "lock"
               /\ UNCHANGED lockP
          ELSE /\ lpc' = "dead"
               /\ lockP = Free
               /\ lockP' = Listener
               /\ UNCHANGED <<nextId, lconn, peer>>
    /\ UNCHANGED <<TAKEN, PENDING_STREAMS, STREAMS, lockS, poisonedS, gone,
                   timeouts, log, thrVars, failed, admitted, admitAt, sesVars,
                   bcVars>>

\* One turn of `for stream in listener.incoming()` up to the lock: accept and
\* set_write_timeout, each of which panics the thread when it fails.
Accept ==
    /\ lpc = "accept"
    /\ nextId < MaxConns
    /\ \E ok \in BOOLEAN, a \in AcceptAddrs :
          IF ok
          THEN /\ nextId' = nextId + 1
               /\ lconn' = nextId + 1
               /\ peer' = [peer EXCEPT ![nextId + 1] = a]
               /\ lpc' = "lock"
          ELSE /\ lpc' = "dead"
               /\ UNCHANGED <<nextId, lconn, peer>>
    /\ UNCHANGED <<regVars, gone, timeouts, log, thrVars, failed, admitted, admitAt,
                   sesVars, bcVars>>

\* PENDING_STREAMS.lock().unwrap()
ListenerLock ==
    /\ lpc = "lock"
    /\ lockP = Free
    /\ lockP' = Listener
    /\ lpc' = "push"
    /\ UNCHANGED <<TAKEN, PENDING_STREAMS, STREAMS, lockS, poisonedS, lconn,
                   nextId, peer, gone, timeouts, log, thrVars, failed, admitted, admitAt,
                   sesVars, bcVars>>

\* The phase of the logging side at the moment a connection is pushed.
Phase ==
    IF \E t \in Threads : inSession[t] THEN "during"
    ELSE IF (\A t \in Threads : pc[t] = "idle") /\ ~TAKEN /\ sessions > 0
         THEN "between"
         ELSE "edge"

\* Mutant of ListenerPush: the stream is pushed to STREAMS.
ListenerPushActive ==
    /\ lpc = "push"
    /\ STREAMS' = Append(STREAMS, lconn)
    /\ lockP' = Free
    /\ lpc' = "accept"
    /\ lconn' = 0
    /\ admitted' = admitted \cup {lconn}
    /\ admitAt' = [admitAt EXCEPT ![lconn] = <<sessions, Phase>>]
    /\ UNCHANGED <<TAKEN, PENDING_STREAMS, lockS, poisonedS, nextId, peer, gone,
                   timeouts, log, thrVars, failed, sesVars, bcVars>>

\* streams.push((stream, Encoder::new())), then the guard is dropped.
ListenerPush ==
    /\ lpc = "push"
    /\ PENDING_STREAMS' = Append(PENDING_STREAMS, lconn)
    /\ lockP' = Free
    /\ lpc' = "accept"
    /\ lconn' = 0
    /\ admitted' = admitted \cup {lconn}
    /\ admitAt' = [admitAt EXCEPT ![lconn] = <<sessions, Phase>>]
    /\ UNCHANGED <<TAKEN, STREAMS, lockS, poisonedS, nextId, peer, gone, timeouts, log,
                   thrVars, failed, sesVars, bcVars>>

\* Environment: the peer of an accepted connection resets it.
PeerReset(c) ==
    /\ c <= nextId
    /\ ~gone[c]
    /\ gone' = [gone EXCEPT ![c] = TRUE]
    /\ UNCHANGED <<regVars, lisVars, timeouts, log, thrVars, failed, admitted, admitAt,
                   sesVars, bcVars>>

(***************************************************************************)
(* The logging threads: impl defmt::Logger for Logger.                     *)
(***************************************************************************)

\* What each thread may call, given what it has called: acquire, then write
\* and flush, then release.
ThreadOK(t, m) == IF m = "acquire" THEN ~inSession[t] ELSE inSession[t]

\* The thread the logging front end runs on when it obeys the contract (the
\* code never reads the identity of the calling thread).
FrontEnd == "t1"

\* The host logging contract: calls are not concurrent, acquire is not
\* reentrant, write and flush come between acquire and release.
ContractOK(t, m) ==
    /\ t = FrontEnd
    /\ \A u \in Threads : pc[u] = "idle"
    /\ m = "acquire" => \A u \in Threads : ~inSession[u]
    /\ m # "acquire" => inSession[t]

\* The bounds on what the front end calls: sessions begun, writes per session.
\* The bytes of the k-th write of a session are named k.
InBounds(m) ==
    /\ m = "acquire" => sessions < MaxSessions
    /\ m = "write" => Len(emitted) < MaxEmits

\* The logging front end enters Logger method m on thread t.
HostCall(t, m) ==
    /\ pc[t] = "idle"
    /\ InBounds(m)
    /\ ThreadOK(t, m)
    /\ call' = [call EXCEPT ![t] = m]
    /\ arg' = [arg EXCEPT ![t] = IF m = "write" THEN Len(emitted) + 1 ELSE 0]
    /\ pc' = [pc EXCEPT ![t] = IF m = "acquire" THEN "acq_load" ELSE "oas_lock"]
    /\ emitted' = IF m = "write" THEN Append(emitted, Len(emitted) + 1)
                                  ELSE emitted
    /\ UNCHANGED <<regVars, lisVars, gone, timeouts, log, streams_to_drop, inSession,
                   failed, admitted, admitAt, sessions, sessActive, sessFault,
                   mark, bcVars>>

Methods == {"acquire", "release", "write", "flush"}

Call(t) == \E m \in Methods : HostCall(t, m)

ContractCall(t) == \E m \in Methods : ContractOK(t, m) /\ HostCall(t, m)

\* Mutant of Reentrant: the check of TAKEN is left out.
NeverReentrant(taken) == FALSE

\* acquire, line 55: whether the call panics for the value loaded from TAKEN.
Reentrant(taken) == taken

\* acquire, lines 55-57: TAKEN.load and the panic.
AcqLoad(t) ==
    /\ pc[t] = "acq_load"
    /\ pc' = [pc EXCEPT ![t] = IF Reentrant(TAKEN) THEN "panic_reentrant"
                                                  ELSE "acq_store"]
    /\ UNCHANGED <<regVars, lisVars, gone, timeouts, log, call, arg, streams_to_drop,
                   inSession, failed, admitted, admitAt, sesVars, bcVars>>

\* acquire, line 59: TAKEN.store(true).
AcqStore(t) ==
    /\ pc[t] = "acq_store"
    /\ TAKEN' = TRUE
    /\ pc' = [pc EXCEPT ![t] = "prom_lockS"]
    /\ UNCHANGED <<PENDING_STREAMS, STREAMS, lockP, lockS, poisonedS, lisVars,
                   gone, timeouts, log, call, arg, streams_to_drop, inSession,
                   failed, admitted, admitAt, sesVars, bcVars>>

\* Mutant of PromLockS: the thread locks PENDING_STREAMS first and, holding
\* it, waits for the STREAMS lock.
PromLockPendingFirst(t) ==
    /\ pc[t] = "prom_lockS"
    /\ IF lockP # t
       THEN /\ lockP = Free
            /\ lockP' = t
            /\ UNCHANGED <<pc, lockS>>
       ELSE /\ lockS = Free
            /\ lockS' = t
            /\ pc' = [pc EXCEPT ![t] = "prom_move"]
            /\ UNCHANGED lockP
    /\ UNCHANGED <<TAKEN, PENDING_STREAMS, STREAMS, poisonedS, lisVars, gone,
                   timeouts, log, call, arg, streams_to_drop, inSession,
                   failed, admitted, admitAt, sesVars, bcVars>>

\* Lines 62-64 and 82-84: STREAMS.lock().unwrap(), the receiver of extend.
PromLockS(t) ==
    /\ pc[t] = "prom_lockS"
    /\ lockS = Free
    /\ IF poisonedS
       THEN /\ pc' = [pc EXCEPT ![t] = "panic_poison"]
            /\ UNCHANGED lockS
       ELSE /\ pc' = [pc EXCEPT ![t] = "prom_lockP"]
            /\ lockS' = t
    /\ UNCHANGED <<TAKEN, PENDING_STREAMS, STREAMS, lockP, poisonedS, lisVars,
                   gone, timeouts, log, call, arg, streams_to_drop, inSession,
                   failed, admitted, admitAt, sesVars, bcVars>>

\* Lines 65 and 85: PENDING_STREAMS.lock().unwrap(), with STREAMS still locked.
PromLockP(t) ==
    /\ pc[t] = "prom_lockP"
    /\ lockP = Free
    /\ lockP' = t
    /\ pc' = [pc EXCEPT ![t] = "prom_move"]
    /\ UNCHANGED <<TAKEN, PENDING_STREAMS, STREAMS, lockS, poisonedS, lisVars,
                   gone, timeouts, log, call, arg, streams_to_drop, inSession,
                   failed, admitted, admitAt, sesVars, bcVars>>

\* Mutant of Promote: the drained streams are not added.
PromoteForgets(active, pending) == active

\* Mutant of Promote: the drained streams are put in front.
PromoteInFront(active, pending) == pending \o active

\* extend(.. drain(..)): the active vector after the move.
Promote(active, pending) == active \o pending

\* Mutant of PromMove: the guard of PENDING_STREAMS outlives the move.
PromMoveKeepsPendingLock(t) ==
    /\ pc[t] = "prom_move"
    /\ STREAMS' = Promote(STREAMS, PENDING_STREAMS)
    /\ PENDING_STREAMS' = <<>>
    /\ lockS' = Free
    /\ IF call[t] = "acquire"
       THEN /\ pc' = [pc EXCEPT ![t] = "oas_lock"]
            /\ sessions' = sessions + 1
            /\ sessActive' = Range(STREAMS')
            /\ emitted' = <<>>
            /\ sessFault' = FALSE
            /\ mark' = [c \in Conns |-> Len(log[c])]
       ELSE /\ pc' = [pc EXCEPT ![t] = "rel_store"]
            /\ UNCHANGED sesVars
    /\ UNCHANGED <<TAKEN, lockP, poisonedS, lisVars, gone, timeouts, log, call,
                   arg, streams_to_drop, inSession, failed, admitted, admitAt,
                   bcVars>>

\* Lines 62-65 and 82-85: the move, then both guards are dropped.
PromMove(t) ==
    /\ pc[t] = "prom_move"
    /\ STREAMS' = Promote(STREAMS, PENDING_STREAMS)
    /\ PENDING_STREAMS' = <<>>
    /\ lockS' = Free
    /\ lockP' = Free
    /\ IF call[t] = "acquire"
       THEN /\ pc' = [pc EXCEPT ![t] = "oas_lock"]
            /\ sessions' = sessions + 1
            /\ sessActive' = Range(STREAMS')
            /\ emitted' = <<>>
            /\ sessFault' = FALSE
            /\ mark' = [c \in Conns |-> Len(log[c])]
       ELSE /\ pc' = [pc EXCEPT ![t] = "rel_store"]
            /\ UNCHANGED sesVars
    /\ UNCHANGED <<TAKEN, poisonedS, lisVars, gone, timeouts, log, call, arg,
                   streams_to_drop, inSession, failed, admitted, admitAt,
                   bcVars>>

\* Mutant of RelStore: release returns without clearing TAKEN.
RelStoreKeepsTaken(t) ==
    /\ pc[t] = "rel_store"
    /\ pc' = [pc EXCEPT ![t] = "idle"]
    /\ call' = [call EXCEPT ![t] = "none"]
    /\ inSession' = [inSession EXCEPT ![t] = FALSE]
    /\ UNCHANGED <<regVars, lisVars, gone, timeouts, log, arg, streams_to_drop,
                   failed, admitted, admitAt, sesVars, bcVars>>

\* release, line 87: TAKEN.store(false), and the call returns.
RelStore(t) ==
    /\ pc[t] = "rel_store"
    /\ TAKEN' = FALSE
    /\ pc' = [pc EXCEPT ![t] = "idle"]
    /\ call' = [call EXCEPT ![t] = "none"]
    /\ inSession' = [inSession EXCEPT ![t] = FALSE]
    /\ UNCHANGED <<PENDING_STREAMS, STREAMS, lockP, lockS, poisonedS, lisVars,
                   gone, timeouts, log, arg, streams_to_drop, failed, admitted,
                   admitAt, sesVars, bcVars>>

(***************************************************************************)
(* on_all_streams and write_stream.                                        *)
(***************************************************************************)

\* What the socket operation of Logger method m on c can return (TRUE: Ok):
\* write_all to a peer that has reset the connection fails, flush on it may
\* fail; an operation on a live peer succeeds or, at most MaxTimeouts times
\* in a run, fails (a write timeout).
IoOutcomes(m, c) ==
    IF gone[c] THEN (IF m = "flush" THEN {TRUE, FALSE} ELSE {FALSE})
    ELSE IF timeouts < MaxTimeouts THEN {TRUE, FALSE} ELSE {TRUE}

\* The chunk the encoder hands write_stream for each Logger method.
Chunk(m, bytes) ==
    CASE m = "acquire" -> <<"S", 0>>
      [] m = "release" -> <<"E", 0>>
      [] OTHER -> <<"P", bytes>>

\* write_stream, lines 118-123: the value left in *result (TRUE: Ok) for the
\* outcome of write_all.  Line 122 runs after the `if let` in every case.
WriteStream(ok) == TRUE

\* The io::Result the closure passed to on_all_streams returns: the result
\* write_stream left (lines 68-70, 76-78, 92-94), or that of flush (line 99).
OpResult(m, ok) == IF m = "flush" THEN ok ELSE WriteStream(ok)

\* on_all_streams, line 104: STREAMS.lock().unwrap().
OasLock(t) ==
    /\ pc[t] = "oas_lock"
    /\ lockS = Free
    /\ IF poisonedS
       THEN /\ pc' = [pc EXCEPT ![t] = "panic_poison"]
            /\ UNCHANGED <<lockS, snapshot>>
       ELSE /\ lockS' = t
            /\ snapshot' = [snapshot EXCEPT ![t] = STREAMS]
            /\ pc' = [pc EXCEPT ![t] = "oas_io"]
    /\ UNCHANGED <<TAKEN, PENDING_STREAMS, STREAMS, lockP, poisonedS, lisVars,
                   gone, timeouts, log, call, arg, streams_to_drop, inSession,
                   failed, admitted, admitAt, sesVars, attempted>>

\* The outcomes the socket operations of one pass of method m can have:
\* out[c] for each connection in the vector.
PassOutcomes(m, s) ==
    {out \in [Range(s) -> BOOLEAN] :
        /\ \A c \in Range(s) : out[c] \in IoOutcomes(m, c)
        /\ Cardinality({c \in Range(s) : ~out[c] /\ ~gone[c]})
              <= MaxTimeouts - timeouts}

\* Mutant of Pass: the loop ends after its first turn.
PassStopsEarly(m, s, out) ==
    IF s = <<>> THEN [att |-> <<>>, drop |-> <<>>, panicked |-> FALSE]
    ELSE [att |-> <<Head(s)>>,
          drop |-> IF OpResult(m, out[Head(s)]) \/ gone[Head(s)]
                   THEN <<>> ELSE <<peer[Head(s)]>>,
          panicked |-> ~OpResult(m, out[Head(s)]) /\ gone[Head(s)]]

RECURSIVE Pass(_, _, _)
\* on_all_streams, lines 106-111: the loop over the streams s, for Logger
\* method m and socket outcomes out.  att: the connections op was applied to,
\* in order; drop: streams_to_drop; panicked: peer_addr().unwrap() hit a peer
\* that is gone, which ends the loop.
Pass(m, s, out) ==
    IF s = <<>> THEN [att |-> <<>>, drop |-> <<>>, panicked |-> FALSE]
    ELSE LET c == Head(s) IN
         IF OpResult(m, out[c])
         THEN LET rest == Pass(m, Tail(s), out) IN
              [rest EXCEPT !.att = <<c>> \o @]
         ELSE IF gone[c]
              THEN [att |-> <<c>>, drop |-> <<>>, panicked |-> TRUE]
              ELSE LET rest == Pass(m, Tail(s), out) IN
                   [rest EXCEPT !.att = <<c>> \o @, !.drop = <<peer[c]>> \o @]

\* on_all_streams, lines 106-111: the loop.  In state "oas_io" the thread is
\* inside the socket operations, holding the STREAMS lock; the step is the
\* loop running to its end, or to the panic of peer_addr().unwrap(), which
\* poisons the mutex the guard holds.
OasIo(t) ==
    /\ pc[t] = "oas_io"
    /\ \E out \in PassOutcomes(call[t], STREAMS) :
          LET r == Pass(call[t], STREAMS, out)
              bad == {c \in Range(r.att) : ~out[c]}
          IN
          /\ attempted' = [attempted EXCEPT ![t] = r.att]
          /\ failed' = failed \cup bad
          /\ sessFault' = (sessFault \/ bad # {})
          /\ timeouts' = timeouts + Cardinality({c \in bad : ~gone[c]})
          /\ log' = [c \in Conns |->
                        IF c \in Range(r.att) /\ out[c] /\ call[t] # "flush"
                        THEN Append(log[c], Chunk(call[t], arg[t]))
                        ELSE log[c]]
          /\ streams_to_drop' = [streams_to_drop EXCEPT ![t] = r.drop]
          /\ IF r.panicked
             THEN /\ pc' = [pc EXCEPT ![t] = "panic_peer_addr"]
                  /\ lockS' = Free
                  /\ poisonedS' = TRUE
             ELSE /\ pc' = [pc EXCEPT ![t] = "oas_remove"]
                  /\ UNCHANGED <<lockS, poisonedS>>
    /\ UNCHANGED <<TAKEN, PENDING_STREAMS, STREAMS, lockP, lisVars, gone, call,
                   arg, inSession, admitted, admitAt, sessions, sessActive,
                   emitted, mark, snapshot>>

\* Lines 113-115: the connections retain() drops for the addresses collected.
Dropped(active, addrs) == {c \in Range(active) : peer[c] \in Range(addrs)}

\* on_all_streams, lines 113-116: the retain passes, then the guard is
\* dropped and the Logger method goes on.  retain calls peer_addr().unwrap()
\* on every stream still in the vector, and panics on one whose peer is gone.
OasRemove(t) ==
    /\ pc[t] = "oas_remove"
    /\ lockS' = Free
    /\ IF streams_to_drop[t] # <<>> /\ \E c \in Range(STREAMS) : gone[c]
       THEN /\ pc' = [pc EXCEPT ![t] = "panic_peer_addr"]
            /\ poisonedS' = TRUE
            /\ UNCHANGED <<STREAMS, call, arg, inSession, streams_to_drop,
                           bcVars>>
       ELSE /\ STREAMS' = Retain(STREAMS, Dropped(STREAMS, streams_to_drop[t]))
            /\ UNCHANGED poisonedS
            /\ streams_to_drop' = [streams_to_drop EXCEPT ![t] = <<>>]
            /\ snapshot' = [snapshot EXCEPT ![t] = <<>>]
            /\ attempted' = [attempted EXCEPT ![t] = <<>>]
            /\ IF call[t] = "release"
               THEN /\ pc' = [pc EXCEPT ![t] = "prom_lockS"]
                    /\ UNCHANGED <<call, arg, inSession>>
               ELSE /\ pc' = [pc EXCEPT ![t] = "idle"]
                    /\ inSession' = [inSession EXCEPT ![t] =
                                        IF call[t] = "acquire" THEN TRUE ELSE @]
                    /\ call' = [call EXCEPT ![t] = "none"]
                    /\ arg' = [arg EXCEPT ![t] = 0]
    /\ UNCHANGED <<TAKEN, PENDING_STREAMS, lockP, lisVars, gone, timeouts, log, failed,
                   admitted, admitAt, sesVars>>

(***************************************************************************)
(* Specifications.                                                         *)
(***************************************************************************)

Step(t) ==
    \/ AcqLoad(t)
    \/ AcqStore(t)
    \/ PromLockS(t)
    \/ PromLockP(t)
    \/ PromMove(t)
    \/ RelStore(t)
    \/ OasLock(t)
    \/ OasIo(t)
    \/ OasRemove(t)

Env ==
    \/ Bind
    \/ Accept
    \/ ListenerLock
    \/ ListenerPush
    \/ \E c \in Conns : PeerReset(c)

\* The host obeys the logging contract.
Next ==
    \/ Env
    \/ \E t \in Threads : ContractCall(t) \/ Step(t)

Spec == Init /\ [][Next]_vars

\* Logging threads call concurrently, each following acquire .. release, with
\* peers that neither time out nor reset.
NextThreads ==
    \/ Bind
    \/ Accept
    \/ ListenerLock
    \/ ListenerPush
    \/ \E t \in Threads : Call(t) \/ Step(t)

SpecThreads == InitThreads /\ [][NextThreads]_vars

(***************************************************************************)
(* Properties.                                                             *)
(***************************************************************************)

\* What connection c was delivered since the last acquire promotion.
Frame(c) == SubSeq(log[c], mark[c] + 1, Len(log[c]))

\* The frame of the session so far: the start marker and the payloads.
Opened == <<Chunk("acquire", 0)>> \o [i \in 1..Len(emitted) |-> Chunk("write", emitted[i])]

\* The whole frame of the session.
Expected == Opened \o <<Chunk("release", 0)>>

\* Thread t is inside release, past its broadcast of the end marker.
EndSent(t) ==
    /\ call[t] = "release"
    /\ pc[t] \in {"prom_lockS", "prom_lockP", "prom_move", "rel_store"}

\* Thread t is inside acquire, in its broadcast of the start marker.
StartBroadcast(t) == call[t] = "acquire" /\ pc[t] \in {"oas_lock", "oas_io"}

Count(s, c) == Cardinality({i \in 1..Len(s) : s[i] = c})

C2_FailedIsPruned ==
    (\A t \in Threads : pc[t] \notin {"oas_io", "oas_remove", "panic_peer_addr"})
        => \A c \in failed : c \notin Range(STREAMS)

\* Thread t has passed acquire's check of TAKEN and has not returned from
\* release.
SessionOpen(t) ==
    \/ call[t] = "acquire" /\ pc[t] \notin {"acq_load", "panic_reentrant"}
    \/ inSession[t]

\* C3: at most one logging thread has a session open.
C3_OneSession == Cardinality({t \in Threads : SessionOpen(t)}) <= 1

\* C4: an acquire that finds TAKEN set ends in the panic, in the step that
\* reads TAKEN: it moves no connection and writes nothing, and the thread
\* does nothing afterwards.
C4_ReentrantIsFatal ==
    [][\A t \in Threads :
          /\ (pc[t] = "acq_load" /\ TAKEN /\ pc'[t] # pc[t])
                => /\ pc'[t] = "panic_reentrant"
                   /\ UNCHANGED <<STREAMS, PENDING_STREAMS, log>>
          /\ pc[t] = "panic_reentrant" => pc'[t] = "panic_reentrant"]_vars

C4_Witness ==
    \E t \in Threads : pc[t] = "panic_reentrant" /\ STREAMS # <<>>

\* C5: a connection pushed to PENDING_STREAMS while a session was open (after
\* acquire returned) is delivered nothing as long as that session is the
\* last one begun, and is in STREAMS when the next acquire broadcasts the
\* start marker.
C5_LateJoiner ==
    \A c \in admitted :
        admitAt[c][2] = "during" =>
            /\ sessions = admitAt[c][1] => log[c] = <<>>
            /\ \A t \in Threads :
                  StartBroadcast(t) /\ sessions = admitAt[c][1] + 1
                      => c \in Range(STREAMS)

C5_Witness ==
    \E c \in admitted, t \in Threads :
        /\ admitAt[c][2] = "during"
        /\ StartBroadcast(t) /\ pc[t] = "oas_io"
        /\ sessions = admitAt[c][1] + 1
        /\ c \in Range(STREAMS)
        /\ log[c] = <<>>

\* C6: no logging call panics because of a fault on a connection, and the
\* STREAMS mutex is never poisoned.
C6_FaultsNeverSurface ==
    /\ ~poisonedS
    /\ \A t \in Threads : pc[t] \notin {"panic_peer_addr", "panic_poison"}

\* C7: every connection pushed so far is exactly once in PENDING_STREAMS or
\* STREAMS, or in neither and then a socket operation on it has failed.
C7_OnePlace ==
    \A c \in admitted :
        LET n == Count(PENDING_STREAMS, c) + Count(STREAMS, c) IN
        /\ n <= 1
        /\ n = 0 => c \in failed

RECURSIVE Framed(_, _)
\* s continues a stream of frames; next = 0 outside a frame, else the number
\* of the payload that comes next in the open frame.
Framed(s, next) ==
    IF s = <<>> THEN TRUE
    ELSE LET k == Head(s) IN
         IF next = 0 THEN k[1] = "S" /\ Framed(Tail(s), 1)
         ELSE \/ k = <<"P", next>> /\ Framed(Tail(s), next + 1)
              \/ k[1] = "E" /\ Framed(Tail(s), 0)

\* C8: what each connection has been delivered is a prefix of a sequence of
\* frames: start marker, the payloads from the first on, end marker.
C8_WellFramed == \A c \in Conns : Framed(log[c], 0)

\* C9: when the loop of a broadcast is over, op has been applied exactly once,
\* in order, to every connection that was in STREAMS when it began.
C9_EveryoneOnce ==
    \A t \in Threads :
        pc[t] \in {"oas_remove", "panic_peer_addr"} => attempted[t] = snapshot[t]

C11_FlushTransparent ==
    \A t \in Threads :
        EndSent(t) =>
            \A c \in sessActive : c \notin failed => Frame(c) = Expected

\* Logging thread t has panicked.
Panicked(t) == pc[t] \in {"panic_reentrant", "panic_peer_addr", "panic_poison"}

\* No logging thread is inside a Logger method or between acquire and release.
Quiet == \A t \in Threads : pc[t] = "idle" /\ ~inSession[t]

\* C12: as long as no connection has been pushed, no logging call panics,
\* nothing is delivered, both vectors stay empty, a thread inside a call can
\* take its next step unless it waits for the listener's push, and TAKEN is
\* false again once release has returned.
C12_NoObservers ==
    admitted = {} =>
        /\ STREAMS = <<>> /\ PENDING_STREAMS = <<>>
        /\ \A c \in Conns : log[c] = <<>>
        /\ \A t \in Threads :
              /\ ~Panicked(t)
              /\ pc[t] # "idle" => (ENABLED Step(t)) \/ lockP = Listener
        /\ Quiet => ~TAKEN

C12_Witness ==
    /\ admitted = {}
    /\ sessions = 1 /\ emitted # <<>>
    /\ Quiet /\ ~TAKEN
    /\ STREAMS = <<>> /\ PENDING_STREAMS = <<>>
    /\ \A c \in Conns : log[c] = <<>>

\* C13: once the listener thread has died of a fault (bind, accept or
\* set_write_timeout failed), it holds no lock and no stream; every logging
\* thread inside a call can take its next step; a call panics only after a
\* socket operation on a connection failed; a session without such a failure
\* delivers its whole frame to its active set; and from then on no connection
\* is pushed, PENDING_STREAMS changing only by being moved whole to the end of
\* STREAMS.
C13_ListenerFault ==
    /\ [](lpc = "dead" =>
            /\ lockP # Listener /\ lconn = 0
            /\ \A t \in Threads :
                  /\ pc[t] # "idle" /\ ~Panicked(t) => ENABLED Step(t)
                  /\ Panicked(t) => sessFault
                  /\ EndSent(t) /\ ~sessFault
                        => \A c \in sessActive : Frame(c) = Expected)
    /\ [][lpc = "dead" =>
            /\ lpc' = "dead"
            /\ admitted' = admitted /\ nextId' = nextId
            /\ \/ PENDING_STREAMS' = PENDING_STREAMS
               \/ /\ PENDING_STREAMS' = <<>>
                  /\ STREAMS' = STREAMS \o PENDING_STREAMS]_vars

C13_Witness ==
    /\ lpc = "dead"
    /\ \E t \in Threads, c \in sessActive :
          /\ EndSent(t) /\ ~sessFault
          /\ emitted # <<>>
          /\ sessions = 2 /\ admitAt[c][1] = 1 /\ mark[c] = 0
          /\ Frame(c) = Expected

\* Thread t is inside the loop of on_all_streams with sockets to operate on.
InSocketIo(t) == pc[t] = "oas_io" /\ STREAMS # <<>>

\* C14: no thread holds the STREAMS lock while it is inside the socket
\* operations of a broadcast.
C14_NoIoUnderStreamsLock == \A t \in Threads : InSocketIo(t) => lockS # t

\* C15: a logging thread holds the PENDING_STREAMS lock only in the move step
\* of a promotion, which it can take at once; so while any thread is inside
\* the socket operations of a broadcast no logging thread holds that lock,
\* and the listener, when it has to wait for it, waits for a move step.
C15_AdmitNeverWaitsOnIo ==
    /\ \A t \in Threads :
          lockP = t => pc[t] = "prom_move" /\ ENABLED PromMove(t)
    /\ (\E u \in Threads : InSocketIo(u)) => lockP \notin Threads
    /\ lpc = "lock" /\ lockP # Free
          => \E t \in Threads : lockP = t /\ pc[t] = "prom_move"

C15_Witness ==
    /\ lpc = "lock"
    /\ lockP = Free
    /\ ENABLED ListenerLock
    /\ \E u \in Threads : InSocketIo(u) /\ lockS = u

\* Thread t takes a step from position p.
Leaves(t, p) == pc[t] = p /\ pc'[t] # p

\* C16: TAKEN changes only in the stores of acquire and release; the store of
\* acquire takes it from false to true and the store of release from true to
\* false (no store of true over true, none of false over false).
C16_OnlyToggles ==
    [][/\ TAKEN' # TAKEN =>
             \E t \in Threads : Leaves(t, "acq_store") \/ Leaves(t, "rel_store")
       /\ \A t \in Threads :
             /\ Leaves(t, "acq_store") => ~TAKEN /\ TAKEN'
             /\ Leaves(t, "rel_store") => TAKEN /\ ~TAKEN']_vars

\* C17: while no socket operation fails, STREAMS followed by PENDING_STREAMS
\* is the connections pushed so far in accept order (none dropped, none
\* twice); a thread that has both locks for the move sees neither vector
\* change until it moves, and its move leaves STREAMS as it was followed by
\* PENDING_STREAMS as it was, and PENDING_STREAMS empty.
C17_PromotionAtomic ==
    /\ [](STREAMS \o PENDING_STREAMS = [i \in 1..Cardinality(admitted) |-> i])
    /\ [][\A t \in Threads :
             pc[t] = "prom_move" =>
                IF pc'[t] # "prom_move"
                THEN /\ STREAMS' = STREAMS \o PENDING_STREAMS
                     /\ PENDING_STREAMS' = <<>>
                ELSE UNCHANGED <<STREAMS, PENDING_STREAMS>>]_vars

C17_Witness ==
    \E t \in Threads :
        /\ pc[t] = "rel_store"
        /\ sessions = 1
        /\ admitAt[1][1] = 0 /\ admitAt[2][1] = 1
        /\ STREAMS = <<1, 2>>
        /\ PENDING_STREAMS = <<>>

\* Thread t waits for the STREAMS lock, or for the PENDING_STREAMS lock.
WaitsS(t) == pc[t] \in {"prom_lockS", "oas_lock"}
WaitsP(t) == pc[t] = "prom_lockP"

\* C18: the holder of the PENDING_STREAMS lock waits for no lock, can take
\* its next step, and that step releases the lock; the holder of the STREAMS
\* lock never waits for the STREAMS lock, can take its next step unless it
\* waits for the PENDING_STREAMS lock, and each of its steps either releases
\* the STREAMS lock or brings it one step nearer to doing so (at most two
\* steps of its own).  So no thread waits for a lock for ever.
C18_NoDeadlock ==
    /\ [](/\ lockP = Listener => lpc = "push" /\ ENABLED ListenerPush
          /\ \A t \in Threads :
                /\ lockP = t => ~WaitsS(t) /\ ~WaitsP(t) /\ ENABLED Step(t)
                /\ lockS = t => ~WaitsS(t) /\ (WaitsP(t) \/ ENABLED Step(t)))
    /\ [][/\ lockP = Listener /\ lpc' # lpc => lockP' = Free
          /\ \A t \in Threads :
                /\ lockP = t /\ pc'[t] # pc[t] => lockP' = Free
                /\ lockS = t /\ pc'[t] # pc[t] =>
                      \/ lockS' = Free
                      \/ /\ lockS' = t
                         /\ <<pc[t], pc'[t]>> \in {<<"prom_lockP", "prom_move">>,
                                                  <<"oas_io", "oas_remove">>}]_vars

C18_Witness ==
    \E t, u \in Threads :
        /\ lockS = t /\ WaitsP(t)
        /\ lockP = Listener
        /\ WaitsS(u)

\* C19: the removal of a broadcast leaves the connections on which no socket
\* operation has failed where they were: the same ones, in the same order.
C19_RemovesOnlyFailed ==
    [][\A t \in Threads :
          Leaves(t, "oas_remove") =>
              Retain(STREAMS', failed) = Retain(STREAMS, failed)]_vars

====
